---- MODULE Spec2Model ----
(***************************************************************************)
(* Intel HEX codec of Aseba (src/cmd/HexFile.cpp): HexFile::read decodes a *)
(* text file into the sparse chunk map `data`, HexFile::write encodes a    *)
(* chunk map into text.  Text is modelled as a sequence of character       *)
(* codes, bytes as 0..255, the chunk map as a function from start address  *)
(* to a sequence of bytes (std::map iterates it in ascending key order).   *)
(* The operands of `|` in getUint8/getUint16 are taken left to right.      *)
(* Addresses stay below 2^31, so the uint32 sums never wrap.               *)
(***************************************************************************)
EXTENDS Integers, Sequences, FiniteSets, TLC

VARIABLES
    file,         \* text of the file named by fileName
    recs,         \* the records the file was assembled from (empty when written by write)
    opened,       \* whether the file can be opened
    pc,           \* "write", "chunk", "row" (in write), "idle", "read" (in the loop of read), "done"
    ifs,          \* read: text not yet extracted from the stream
    good,         \* read: ifs.good()
    data,         \* HexFile::data of the decoding object
    baseAddress,  \* read: local baseAddress
    lineCounter,  \* read: local lineCounter
    address,      \* read: effective address of the last data record (-1: none yet)
    result,       \* how read ended: [kind, line, a, b]
    src,          \* HexFile::data of the encoding object
    it,           \* write: key of the chunk being written (-1: end())
    count,        \* write: local count
    highAddress,  \* write: local highAddress
    emitted       \* write: the records sent to ofs, with their place in the file

readVars == <<ifs, good, data, baseAddress, lineCounter, address, result>>
writeVars == <<src, it, count, highAddress, emitted>>
vars == <<file, recs, opened, pc, readVars, writeVars>>

----------------------------------------------------------------------------
(* Bounds of the checked instances *)

MaxRecords == 3
MaxCkRecords == 2
MaxChunks == 2

----------------------------------------------------------------------------
(* Characters *)

Colon == 58
NewLine == 10
EndOfFile == 0 - 1
Char0 == 48
Char9 == 57
CharA == 65
CharF == 70
CharSmallA == 97

(* bitwise or of two unsigned values of n bits *)
RECURSIVE BitOr(_, _, _)
BitOr(a, b, n) ==
    IF n = 0 THEN 0
    ELSE IF a = 0 THEN b
    ELSE IF b = 0 THEN a
    ELSE (IF a % 2 = 1 \/ b % 2 = 1 THEN 1 ELSE 0) + 2 * BitOr(a \div 2, b \div 2, n - 1)

(* stream.get() at position i of the text s: the character, or EOF past the end *)
Get(s, i) == IF i <= Len(s) THEN s[i] ELSE EndOfFile

Drop(s, n) == IF n >= Len(s) THEN <<>> ELSE SubSeq(s, n + 1, Len(s))

(* The lexer returns unsigned; only its low 16 bits are ever kept by a caller. *)
getUint4(s, i) ==
    LET c == Get(s, i)
    IN  (IF c <= Char9 THEN c - Char0
         ELSE IF c <= CharF THEN c - CharA + 10
         ELSE c - CharSmallA + 10) % 65536

getUint8(s, i) == BitOr((getUint4(s, i) * 16) % 65536, getUint4(s, i + 1), 16)

getUint16(s, i) == BitOr((getUint8(s, i) * 256) % 65536, getUint8(s, i + 2), 16)

----------------------------------------------------------------------------
(* The chunk map *)

EmptyMap == [k \in {} |-> <<>>]

Min(S) == CHOOSE x \in S : \A y \in S : x <= y

RECURSIVE SumSeq(_)
SumSeq(s) == IF s = <<>> THEN 0 ELSE Head(s) + SumSeq(Tail(s))

(* lines 141-169: fuse the run with the first chunk, in key order, that it  *)
(* touches, else store it under its own address                             *)
InsertRunMerging(d, addr, recordData) ==
    LET lows == {k \in DOMAIN d : addr = k + Len(d[k])}
        highs == {k \in DOMAIN d : addr + Len(recordData) = k}
        fusable == lows \cup highs
    IN  IF fusable = {} THEN [k \in (DOMAIN d) \cup {addr} |-> IF k = addr THEN recordData ELSE d[k]]
        ELSE IF lows # {} /\ highs # {} /\ Min(lows) # Min(highs)
        THEN [k \in (DOMAIN d) \ {Min(highs)} |->
                 IF k = Min(lows) THEN d[k] \o recordData \o d[Min(highs)] ELSE d[k]]
        ELSE LET found == Min(fusable)
             IN  IF addr = found + Len(d[found])
                 THEN [d EXCEPT ![found] = d[found] \o recordData]
                 ELSE [d EXCEPT ![found] = recordData \o d[found]]

InsertRun(d, addr, recordData) ==
    LET fusable == {k \in DOMAIN d : \/ addr = k + Len(d[k])
                                     \/ addr + Len(recordData) = k}
    IN  IF fusable = {} THEN [k \in (DOMAIN d) \cup {addr} |-> IF k = addr THEN recordData ELSE d[k]]
        ELSE LET found == Min(fusable)
             IN  IF addr = found + Len(d[found])
                 THEN [d EXCEPT ![found] = d[found] \o recordData]
                 ELSE [d EXCEPT ![found] = recordData \o d[found]]

----------------------------------------------------------------------------
(* HexFile::read *)

NoResult == [kind |-> "none", line |-> 0, a |-> 0, b |-> 0]
Ok == [kind |-> "ok", line |-> 0, a |-> 0, b |-> 0]
EarlyEOF(line) == [kind |-> "EarlyEOF", line |-> line, a |-> 0, b |-> 0]
InvalidRecord(line) == [kind |-> "InvalidRecord", line |-> line, a |-> 0, b |-> 0]
WrongCheckSum(line, recordCheckSum, computedCheckSum) ==
    [kind |-> "WrongCheckSum", line |-> line, a |-> recordCheckSum, b |-> computedCheckSum]
UnknownRecordType(line, recordType) ==
    [kind |-> "UnknownRecordType", line |-> line, a |-> recordType, b |-> 0]

IsSpace(c) == c \in {9, 10, 11, 12, 13, 32}

RECURSIVE SkipWs(_)
SkipWs(s) == IF s # <<>> /\ IsSpace(Head(s)) THEN SkipWs(Tail(s)) ELSE s

(* 1 + ~computedCheckSum in uint8 *)
Negate8(s) == (1 + (255 - s)) % 256

(* lines 104-113: the checksum over length, both address bytes and type *)
computedHeaderSumNoHigh(dataLength, lowAddress, recordType) ==
    (dataLength + lowAddress + recordType) % 256

computedHeaderSum(dataLength, lowAddress, recordType) ==
    (dataLength + lowAddress + (lowAddress \div 256) + recordType) % 256

(* line 115: the switch on the record type *)
recordKindLenient(recordType) ==
    CASE recordType = 0 -> "data"
      [] recordType = 1 -> "eof"
      [] recordType = 2 -> "segment"
      [] recordType \in {3, 4, 5} -> "linear"
      [] OTHER -> "unknown"

recordKind(recordType) ==
    CASE recordType = 0 -> "data"
      [] recordType = 1 -> "eof"
      [] recordType = 2 -> "segment"
      [] recordType = 4 -> "linear"
      [] OTHER -> "unknown"

(* lines 173-180: the end-of-file record returns at once; n is the number *)
(* of characters taken after the colon                                     *)
endOfFileChecked(body, line, headerSum) ==
    LET checkSum == getUint8(body, 9) % 256
    IN  [n |-> 10,
         res |-> IF checkSum # Negate8(headerSum)
                 THEN WrongCheckSum(line, checkSum, Negate8(headerSum)) ELSE Ok]

endOfFile(body, line, headerSum) == [n |-> 8, res |-> Ok]

(* lines 185 and 207: the length an extension record must declare *)
extensionLengthAny(dataLength) == dataLength # 0

extensionLength(dataLength) == dataLength = 2

(* lines 192-193 and 214-215: the base address an extension record sets *)
extendedBaseAdding(kind, high, base) ==
    IF kind = "segment" THEN base + high * 16 ELSE base + high * 65536

extendedBase(kind, high, base) ==
    IF kind = "segment" THEN high * 16 ELSE high * 65536

(* One iteration of the loop of read (lines 94-231) from the stream text s, *)
(* chunk map d, base address base and line count line.  cUninit is the      *)
(* value the uninitialized c holds when the extraction of line 96 fails.    *)
(* The result is the state the iteration leaves; n counts the characters    *)
(* that get() was asked for after the colon.                                *)
ReadIteration(s, d, base, line, addr, cUninit) ==
    LET t == SkipWs(s)
        extracted == t # <<>>
        c == IF extracted THEN t[1] ELSE cUninit
        body == IF extracted THEN Tail(t) ELSE <<>>
        dataLength == getUint8(body, 1) % 256
        lowAddress == getUint16(body, 3) % 65536
        recordType == getUint8(body, 7) % 256
        kind == recordKind(recordType)
        headerSum == computedHeaderSum(dataLength, lowAddress, recordType)
        Leave(n, d2, base2, addr2, res) ==
            [ifs |-> Drop(body, n), good |-> extracted /\ n <= Len(body),
             data |-> d2, baseAddress |-> base2,
             lineCounter |-> IF res.kind = "none" THEN line + 1 ELSE line,
             address |-> addr2, result |-> res]
    IN  IF c # Colon THEN
            [ifs |-> body, good |-> extracted, data |-> d, baseAddress |-> base,
             lineCounter |-> line, address |-> addr, result |-> InvalidRecord(line)]
        ELSE IF kind = "data" THEN
            LET recordData == [i \in 1..dataLength |-> getUint8(body, 7 + 2 * i) % 256]
                checkSum == getUint8(body, 9 + 2 * dataLength) % 256
                computedCheckSum == Negate8((headerSum + SumSeq(recordData)) % 256)
                address2 == lowAddress + base
            IN  IF checkSum # computedCheckSum
                THEN Leave(10 + 2 * dataLength, d, base, addr,
                           WrongCheckSum(line, checkSum, computedCheckSum))
                ELSE Leave(10 + 2 * dataLength, InsertRun(d, address2, recordData), base,
                           address2, NoResult)
        ELSE IF kind = "eof" THEN
            LET e == endOfFile(body, line, headerSum)
            IN  Leave(e.n, d, base, addr, e.res)
        ELSE IF kind \in {"segment", "linear"} THEN
            IF ~extensionLength(dataLength) THEN Leave(8, d, base, addr, InvalidRecord(line))
            ELSE
            LET high == getUint16(body, 9) % 65536
                base2 == extendedBase(kind, high, base)
                checkSum == getUint8(body, 13) % 256
                computedCheckSum ==
                    Negate8((headerSum + high + (high \div 256)) % 256)
            IN  IF checkSum # computedCheckSum
                THEN Leave(14, d, base2, addr, WrongCheckSum(line, checkSum, computedCheckSum))
                ELSE Leave(14, d, base2, addr, NoResult)
        ELSE Leave(8, d, base, addr, UnknownRecordType(line, recordType))

----------------------------------------------------------------------------
(* The files read: assembled from a table of records *)

HexChar(n) == IF n < 10 THEN Char0 + n ELSE CharA + n - 10
HexCharLower(n) == IF n < 10 THEN Char0 + n ELSE CharSmallA + n - 10
Hex2(v, lower) ==
    IF lower THEN <<HexCharLower(v \div 16), HexCharLower(v % 16)>>
    ELSE <<HexChar(v \div 16), HexChar(v % 16)>>

RECURSIVE HexBytes(_, _)
HexBytes(bs, lower) == IF bs = <<>> THEN <<>> ELSE Hex2(Head(bs), lower) \o HexBytes(Tail(bs), lower)

(* the Intel HEX checksum of a record's fields *)
RecordSum(len, addr, type, payload) ==
    (256 - ((len + (addr \div 256) + (addr % 256) + type + SumSeq(payload)) % 256)) % 256

(* a record as it stands in a file:  mark, length, address, type, payload, *)
(* checksum (ck < 0: cut off before the checksum), newline                 *)
Rec(mark, len, addr, type, payload, ck, lower, nl) ==
    [mark |-> mark, len |-> len, addr |-> addr, type |-> type, payload |-> payload,
     ck |-> ck, lower |-> lower, nl |-> nl]

RecText(r) ==
    <<r.mark>> \o Hex2(r.len, r.lower) \o Hex2(r.addr \div 256, r.lower)
    \o Hex2(r.addr % 256, r.lower) \o Hex2(r.type, r.lower) \o HexBytes(r.payload, r.lower)
    \o (IF r.ck >= 0 THEN Hex2(r.ck, r.lower) ELSE <<>>)
    \o (IF r.nl THEN <<NewLine>> ELSE <<>>)

DataRec(addr, payload) ==
    Rec(Colon, Len(payload), addr, 0, payload, RecordSum(Len(payload), addr, 0, payload), FALSE, TRUE)
ExtRec(type, value) ==
    LET p == <<value \div 256, value % 256>>
    IN  Rec(Colon, 2, 0, type, p, RecordSum(2, 0, type, p), FALSE, TRUE)

(* a record every field of which is as the format demands *)
WellFormed(r) ==
    /\ r.mark = Colon
    /\ r.type \in {0, 1, 2, 4}
    /\ r.len = Len(r.payload)
    /\ r.type \in {2, 4} => r.len = 2
    /\ r.type = 1 => r.len = 0
    /\ r.ck = RecordSum(r.len, r.addr, r.type, r.payload)

RecordTable ==
    << DataRec(256, <<17, 34>>),                                   \* [0x100,0x102)
       DataRec(258, <<51>>),                                       \* [0x102,0x103)
       DataRec(259, <<68, 85>>),                                   \* [0x103,0x105)
       [DataRec(32, <<171>>) EXCEPT !.lower = TRUE],               \* low address 0x0020
       ExtRec(4, 1),                                               \* linear, page 0x0001
       ExtRec(2, 4096),                                            \* segment 0x1000
       Rec(Colon, 0, 0, 1, <<>>, 255, FALSE, TRUE),                \* end of file
       Rec(Colon, 0, 0, 1, <<>>, 18, FALSE, FALSE),                \* end of file, checksum wrong
       Rec(Colon, 2, 0, 3, <<0, 0>>, 251, FALSE, TRUE),            \* type 3
       Rec(Colon, 0, 0, 5, <<>>, 251, FALSE, TRUE),                \* type 5
       [DataRec(256, <<17, 34>>) EXCEPT !.ck = 0],                 \* data, checksum wrong
       Rec(Colon, 3, 0, 4, <<0, 1, 0>>, 248, FALSE, TRUE),         \* linear, length 3
       Rec(Colon, 1, 0, 2, <<16>>, 237, FALSE, TRUE),              \* segment, length 1
       [ExtRec(4, 2) EXCEPT !.ck = 1],                             \* linear, checksum wrong
       Rec(88, 0, 0, 0, <<>>, 0, FALSE, TRUE),                     \* no colon
       Rec(Colon, 1, 0, 0, <<0>>, 0 - 1, FALSE, FALSE) >>          \* cut off before the checksum

RECURSIVE FileText(_)
FileText(rs) == IF rs = <<>> THEN <<>> ELSE RecText(Head(rs)) \o FileText(Tail(rs))

Files == UNION {[1..n -> 1..Len(RecordTable)] : n \in 0..MaxRecords}

----------------------------------------------------------------------------

InitFrom(fileSet) ==
    /\ \E f \in fileSet :
         /\ recs = [i \in DOMAIN f |-> RecordTable[f[i]]]
         /\ file = FileText(recs)
         /\ opened \in (IF f = <<>> THEN BOOLEAN ELSE {TRUE})
    /\ pc = "idle"
    /\ ifs = <<>>
    /\ good = FALSE
    /\ data = EmptyMap
    /\ baseAddress = 0
    /\ lineCounter = 0
    /\ address = 0 - 1
    /\ result = NoResult
    /\ src = EmptyMap
    /\ it = 0 - 1
    /\ count = 0
    /\ highAddress = 0
    /\ emitted = <<>>

Init == InitFrom(Files)

(* lines 84-90: a file that cannot be opened sets failbit, never badbit *)
ReadOpen ==
    /\ pc = "idle"
    /\ pc' = "read"
    /\ ifs' = file
    /\ good' = opened
    /\ lineCounter' = 0
    /\ baseAddress' = 0
    /\ UNCHANGED <<file, recs, opened, data, address, result, writeVars>>

(* lines 92-231: one iteration of the loop *)
ReadRecord ==
    /\ pc = "read"
    /\ good
    /\ \E cUninit \in {Colon, 0} :
         LET n == ReadIteration(ifs, data, baseAddress, lineCounter, address, cUninit)
         IN  /\ ifs' = n.ifs
             /\ good' = n.good
             /\ data' = n.data
             /\ baseAddress' = n.baseAddress
             /\ lineCounter' = n.lineCounter
             /\ address' = n.address
             /\ result' = n.result
             /\ pc' = IF n.result.kind = "none" THEN "read" ELSE "done"
    /\ UNCHANGED <<file, recs, opened, writeVars>>

(* lines 92, 234: the stream is no longer good at the top of the loop *)
ReadEarlyEOF ==
    /\ pc = "read"
    /\ ~good
    /\ result' = EarlyEOF(lineCounter)
    /\ pc' = "done"
    /\ UNCHANGED <<file, recs, opened, ifs, good, data, baseAddress, lineCounter, address,
                   writeVars>>

Next == ReadOpen \/ ReadRecord \/ ReadEarlyEOF

Spec == Init /\ [][Next]_vars

(* files of well-formed records without an end-of-file record *)
CkFiles ==
    LET ok == {i \in 1..Len(RecordTable) : WellFormed(RecordTable[i]) /\ RecordTable[i].type # 1}
    IN  UNION {[1..n -> ok] : n \in 0..MaxCkRecords}

InitCk == InitFrom(CkFiles)

SpecCk == InitCk /\ [][Next]_vars

----------------------------------------------------------------------------
(* HexFile::write *)

RowSize == 32

(* the hexadecimal digits of v, lower case, without leading zeros *)
RECURSIVE HexDigits(_)
HexDigits(v) ==
    IF v < 16 THEN <<HexCharLower(v)>> ELSE HexDigits(v \div 16) \o <<HexCharLower(v % 16)>>

(* stream << std::setw(2) << v, under flags(std::ios::hex) and fill('0') *)
PutHexUnpadded(v) == HexDigits(v)

PutHex(v) ==
    LET ds == HexDigits(v)
    IN  IF Len(ds) < 2 THEN <<Char0>> \o ds ELSE ds

RECURSIVE PutBytes(_)
PutBytes(bs) == IF bs = <<>> THEN <<>> ELSE PutHex(Head(bs)) \o PutBytes(Tail(bs))

(* lines 237-262 *)
writeExtendedLinearAddressRecord(addr16) ==
    LET checkSum == Negate8((2 + 0 + 0 + 2 + (addr16 % 256) + (addr16 \div 256)) % 256)
    IN  <<Colon, Char0, 50, Char0, Char0, Char0, Char0, Char0, 50>>
        \o PutHex(addr16 % 256) \o PutHex(addr16 \div 256) \o PutHex(checkSum) \o <<NewLine>>

(* lines 264-300 *)
writeDataOnesComplement(addr16, count8, bytes) ==
    LET checkSum == 255 - ((count8 + (addr16 % 256) + (addr16 \div 256) + 0 + SumSeq(bytes)) % 256)
    IN  <<Colon>> \o PutHex(count8) \o PutHex(addr16 % 256) \o PutHex(addr16 \div 256)
        \o <<Char0, Char0>> \o PutBytes(bytes) \o PutHex(checkSum) \o <<NewLine>>

writeData(addr16, count8, bytes) ==
    LET checkSum ==
            Negate8((count8 + (addr16 % 256) + (addr16 \div 256) + 0 + SumSeq(bytes)) % 256)
    IN  <<Colon>> \o PutHex(count8) \o PutHex(addr16 % 256) \o PutHex(addr16 \div 256)
        \o <<Char0, Char0>> \o PutBytes(bytes) \o PutHex(checkSum) \o <<NewLine>>

(* line 343 *)
EndOfFileTextData == <<Colon, Char0, Char0, Char0, Char0, Char0, Char0, Char0, Char0, CharF, CharF>>

EndOfFileText == <<Colon, Char0, Char0, Char0, Char0, Char0, Char0, Char0, 49, CharF, CharF>>

(* the iterator after the chunk keyed k: the next key, or end() *)
NextChunk(k) ==
    LET later == {a \in DOMAIN src : a > k}
    IN  IF later = {} THEN 0 - 1 ELSE Min(later)

Emit(fn, chunk, arg, n) == [fn |-> fn, chunk |-> chunk, arg |-> arg, n |-> n, at |-> Len(file) + 1]

(* line 325: the 64K page of the row that starts count bytes into the chunk *)
rowPageOfChunk(chunkAddress, n) == chunkAddress \div 65536

rowPage(chunkAddress, n) == (chunkAddress + n) \div 65536

(* line 331: the number of bytes of the row *)
rowCountHalf(amount, n) == IF amount - n < 16 THEN amount - n ELSE 16

rowCountOf(amount, n) == IF amount - n < RowSize THEN amount - n ELSE RowSize

(* lines 304-314: the stream is opened empty, the iteration starts *)
WriteOpen ==
    /\ pc = "write"
    /\ file' = <<>>
    /\ it' = NextChunk(0 - 1)
    /\ pc' = "chunk"
    /\ UNCHANGED <<recs, opened, readVars, src, count, highAddress, emitted>>

(* lines 314-322: the head of a chunk, with its address extension record *)
WriteChunk ==
    /\ pc = "chunk"
    /\ it >= 0
    /\ LET chunkAddress == it
           amount == Len(src[it])
           high == chunkAddress \div 65536
       IN  /\ highAddress' = high
           /\ file' = file \o writeExtendedLinearAddressRecord(high)
           /\ emitted' = Append(emitted, Emit("ext", it, high, 0))
           /\ count' = 0
           /\ IF 0 < amount
              THEN pc' = "row" /\ it' = it
              ELSE pc' = "chunk" /\ it' = NextChunk(it)
    /\ UNCHANGED <<recs, opened, readVars, src>>

(* lines 322-339: one row of the chunk *)
WriteRow ==
    /\ pc = "row"
    /\ LET chunkAddress == it
           amount == Len(src[it])
           newHighAddress == rowPage(chunkAddress, count)
           ext == IF newHighAddress # highAddress
                  THEN writeExtendedLinearAddressRecord(newHighAddress) ELSE <<>>
           rowCount == rowCountOf(amount, count)
           lowAddress == chunkAddress % 65536
           buffer == SubSeq(src[it], count + 1, count + rowCount)
       IN  /\ highAddress' = newHighAddress
           /\ file' = file \o ext \o writeData(lowAddress, rowCount, buffer)
           /\ emitted' = emitted
                \o (IF ext # <<>> THEN <<Emit("ext", it, newHighAddress, 0)>> ELSE <<>>)
                \o <<[Emit("data", it, lowAddress, rowCount) EXCEPT !.at = Len(file) + Len(ext) + 1]>>
           /\ count' = count + rowCount
           /\ IF count + rowCount < amount
              THEN pc' = "row" /\ it' = it
              ELSE pc' = "chunk" /\ it' = NextChunk(it)
    /\ UNCHANGED <<recs, opened, readVars, src>>

(* lines 342-344: the end-of-file record; the stream closes on return *)
WriteEOF ==
    /\ pc = "chunk"
    /\ it < 0
    /\ file' = file \o EndOfFileText
    /\ emitted' = Append(emitted, Emit("eof", 0 - 1, 0, 0))
    /\ pc' = "idle"
    /\ UNCHANGED <<recs, opened, readVars, src, it, count, highAddress>>

(* The chunk maps written: built by hand from a table of chunks, pairwise  *)
(* disjoint and not adjacent                                               *)
PatternBytes(seed, n) == [i \in 1..n |-> (seed + 37 * i) % 256]

ChunkTable ==
    << [addr |-> 0,     bytes |-> PatternBytes(1, 1)],
       [addr |-> 257,   bytes |-> PatternBytes(2, 2)],     \* 0x0101
       [addr |-> 512,   bytes |-> PatternBytes(3, 1)],     \* 0x0200
       [addr |-> 1028,  bytes |-> PatternBytes(4, 40)],    \* 0x0404, two rows
       [addr |-> 65520, bytes |-> PatternBytes(5, 70)],    \* 0xFFF0, over the 64K boundary
       [addr |-> 65793, bytes |-> PatternBytes(6, 2)],     \* 0x10101
       [addr |-> 196608, bytes |-> PatternBytes(7, 33)] >> \* 0x30000

Apart(c1, c2) ==
    \/ c1.addr + Len(c1.bytes) < c2.addr
    \/ c2.addr + Len(c2.bytes) < c1.addr

Models ==
    {S \in SUBSET (1..Len(ChunkTable)) :
        /\ Cardinality(S) <= MaxChunks
        /\ \A i, j \in S : i # j => Apart(ChunkTable[i], ChunkTable[j])}

InitRT ==
    /\ \E S \in Models :
         src = [a \in {ChunkTable[i].addr : i \in S} |->
                   ChunkTable[CHOOSE i \in S : ChunkTable[i].addr = a].bytes]
    /\ file = <<>>
    /\ recs = <<>>
    /\ opened \in BOOLEAN
    /\ pc = "write"
    /\ ifs = <<>>
    /\ good = FALSE
    /\ data = EmptyMap
    /\ baseAddress = 0
    /\ lineCounter = 0
    /\ address = 0 - 1
    /\ result = NoResult
    /\ it = 0 - 1
    /\ count = 0
    /\ highAddress = 0
    /\ emitted = <<>>

NextRT == WriteOpen \/ WriteChunk \/ WriteRow \/ WriteEOF \/ ReadOpen \/ ReadRecord \/ ReadEarlyEOF

SpecRT == InitRT /\ [][NextRT]_vars

----------------------------------------------------------------------------
(* Properties of HexFile::read *)

Errors == {"InvalidRecord", "WrongCheckSum", "UnknownRecordType", "EarlyEOF"}

(* the first j records of the file are well formed *)
AllWellFormed(j) == j <= Len(recs) /\ \A i \in 1..j : WellFormed(recs[i])

IsData(r) == WellFormed(r) /\ r.type = 0

(* text of the file from record j on *)
TextFrom(j) == FileText(SubSeq(recs, j, Len(recs)))

(* the base address the records before record j establish *)
BaseBefore(j) ==
    LET ext == {i \in 1..(j - 1) : recs[i].type \in {2, 4}}
    IN  IF ext = {} THEN 0
        ELSE LET m == CHOOSE i \in ext : \A k \in ext : k <= i
                 value == recs[m].payload[1] * 256 + recs[m].payload[2]
             IN  IF recs[m].type = 4 THEN value * 65536 ELSE value * 16

(* C2: two data records over adjacent ranges [A,A+n) and [A+n,A+n+m),     *)
(* decoded in either order into the empty map, leave the single chunk      *)
(* keyed A holding the lower record's bytes followed by the upper's.       *)
C2_CoalesceEitherOrder ==
    (/\ lineCounter = 2
     /\ Len(recs) >= 2
     /\ IsData(recs[1]) /\ IsData(recs[2]))
    => \A lo \in 1..2 :
         LET up == 3 - lo
         IN  (recs[lo].len > 0 /\ recs[up].len > 0
              /\ recs[lo].addr + recs[lo].len = recs[up].addr)
             => data = [k \in {recs[lo].addr} |-> recs[lo].payload \o recs[up].payload]

(* C3: after every insertion of a data record of a file of well-formed    *)
(* records, no two chunks of the map overlap or touch.                     *)
C3_ChunksApart ==
    AllWellFormed(lineCounter)
    => \A a1, a2 \in DOMAIN data : a1 < a2 => a1 + Len(data[a1]) < a2

(* C4: the run of a data record goes to base + low address, where base is *)
(* 0 before any extension record, value << 16 after a type 4 record and    *)
(* value << 4 after a type 2 record, the latest extension record replacing *)
(* the base; a run that meets no chunk is stored under that address.       *)
C4_EffectiveAddress ==
    (/\ lineCounter >= 1
     /\ AllWellFormed(lineCounter)
     /\ recs[lineCounter].type = 0)
    => /\ address = BaseBefore(lineCounter) + recs[lineCounter].addr
       /\ (\A i \in 1..(lineCounter - 1) : recs[i].type # 0)
          => data = [k \in {address} |-> recs[lineCounter].payload]

C4_Witness ==
    /\ lineCounter = 3
    /\ AllWellFormed(3)
    /\ recs[1].type = 4 /\ recs[2].type = 2 /\ recs[3].type = 0
    /\ address = 65568
    /\ DOMAIN data = {65568}

(* C6: a file of k well-formed records, none of type 1, ends read with    *)
(* EarlyEOF carrying k.                                                    *)
C6_EarlyEOF ==
    (/\ pc = "done"
     /\ opened
     /\ AllWellFormed(Len(recs))
     /\ \A i \in 1..Len(recs) : recs[i].type # 1)
    => result = EarlyEOF(Len(recs))

(* C7: a record of a type outside {0,1,2,4} ends read with                *)
(* UnknownRecordType carrying the type and the count of records before it, *)
(* the stream standing right after the type field.                         *)
C7_UnknownType ==
    [][(/\ pc = "read" /\ good
        /\ AllWellFormed(lineCounter)
        /\ lineCounter < Len(recs)
        /\ recs[lineCounter + 1].mark = Colon
        /\ recs[lineCounter + 1].type \notin {0, 1, 2, 4})
       => /\ result' = UnknownRecordType(lineCounter, recs[lineCounter + 1].type)
          /\ pc' = "done"
          /\ ifs' = Drop(TextFrom(lineCounter + 1), 9)
          /\ data' = data]_vars

C7_Witness ==
    /\ result = UnknownRecordType(1, 3)
    /\ Len(recs) >= 2
    /\ AllWellFormed(1)
    /\ recs[2].type = 3
    /\ ifs = Drop(TextFrom(2), 9)
    /\ Len(ifs) >= 6

(* C8: when read fails, the chunk map is as it was before the call.       *)
C8_NoPartialResult ==
    result.kind \in Errors => data = EmptyMap

(* C9: a record of type 1 ends read successfully with the map built from  *)
(* the records before it; nothing after the type field is taken from the   *)
(* stream.                                                                 *)
C9_EndOfFile ==
    [][(/\ pc = "read" /\ good
        /\ AllWellFormed(lineCounter)
        /\ lineCounter < Len(recs)
        /\ recs[lineCounter + 1].mark = Colon
        /\ recs[lineCounter + 1].type = 1)
       => /\ result' = Ok
          /\ pc' = "done"
          /\ data' = data
          /\ ifs' = Drop(TextFrom(lineCounter + 1), 9)]_vars

C9_Witness ==
    /\ result = Ok
    /\ lineCounter = 1
    /\ DOMAIN data # {}
    /\ Len(recs) = 3
    /\ recs[2].type = 1
    /\ recs[2].ck # 255
    /\ ifs = Drop(TextFrom(2), 9)

(* the text t with the byte at characters p, p+1 replaced by the value v *)
ReplaceByte(t, p, v) == [t EXCEPT ![p] = HexChar(v \div 16), ![p + 1] = HexChar(v % 16)]

(* C5: when a data record decodes successfully, the same record with one  *)
(* address byte or one payload byte replaced by any other value, its       *)
(* length, type and checksum byte left alone, fails with WrongCheckSum at  *)
(* that line.                                                              *)
C5_ChecksumSensitive ==
    [][(/\ pc = "read" /\ good
        /\ lineCounter < Len(recs)
        /\ AllWellFormed(lineCounter + 1)
        /\ recs[lineCounter + 1].type = 0
        /\ result'.kind = "none")
       => LET r == recs[lineCounter + 1]
              t == SkipWs(ifs)
              bytes == <<r.addr \div 256, r.addr % 256>> \o r.payload
              \* address bytes at characters 4 and 6, payload byte i at 8 + 2i
              At(b) == IF b <= 2 THEN 2 + 2 * b ELSE 6 + 2 * (b - 2) + 2
          IN  \A b \in 1..Len(bytes) : \A v \in 0..255 :
                v # bytes[b] =>
                  LET m == ReadIteration(ReplaceByte(t, At(b), v), data, baseAddress,
                                         lineCounter, address, Colon)
                  IN  /\ m.result.kind = "WrongCheckSum"
                      /\ m.result.line = lineCounter
                      /\ m.result.a = r.ck
                      /\ m.data = data]_vars

C5_Witness ==
    /\ pc = "read"
    /\ lineCounter = 2
    /\ AllWellFormed(2)
    /\ recs[1].type = 4
    /\ recs[2].type = 0
    /\ recs[2].lower
    /\ address = 65568

----------------------------------------------------------------------------
(* Properties of HexFile::write followed by HexFile::read *)

(* the bytes a chunk map holds, as pairs of absolute address and value *)
Image(m) == UNION {{<<k + i - 1, m[k][i]>> : i \in 1..Len(m[k])} : k \in DOMAIN m}

(* C1: reading what write produced from a map of disjoint, non-adjacent   *)
(* chunks into an empty map gives a map with the same bytes at the same    *)
(* absolute addresses.                                                     *)
C1_RoundTrip ==
    (pc = "done" /\ opened /\ emitted # <<>>)
    => /\ result = Ok
       /\ Image(data) = Image(src)

(* C10: the first record write emits for a chunk is a record of type 04   *)
(* and length 2 whose payload the decoder reads as address >> 16, so that  *)
(* decoding it sets the base address to (address >> 16) << 16.             *)
C10_FirstRecordLinear ==
    \A e \in 1..Len(emitted) :
        (/\ emitted[e].chunk >= 0
         /\ \A d \in 1..(e - 1) : emitted[d].chunk # emitted[e].chunk)
        => LET at == emitted[e].at
               page == emitted[e].chunk \div 65536
           IN  /\ Get(file, at) = Colon
               /\ getUint8(file, at + 1) = 2
               /\ getUint8(file, at + 7) = 4
               /\ getUint16(file, at + 9) = page
               /\ ReadIteration(Drop(file, at - 1), EmptyMap, 0, 0, 0 - 1, Colon).baseAddress
                    = page * 65536

----------------------------------------------------------------------------
(* Properties of HexFile::write *)

(* write has left the chunk keyed k behind *)
Written(k) == k \in DOMAIN src /\ pc # "write" /\ (it < 0 \/ it > k)

(* write has returned *)
WriteDone == pc \in {"idle", "read", "done"} /\ recs = <<>>

(* the data records emitted for the chunk keyed k, in emission order *)
DataOf(k) == SelectSeq(emitted, LAMBDA e : e.fn = "data" /\ e.chunk = k)

(* fields of the record whose colon stands at position at of the file, as  *)
(* the decoder's lexer reads them                                          *)
CountAt(at) == getUint8(file, at + 1)
AddressAt(at) == getUint16(file, at + 3)
TypeAt(at) == getUint8(file, at + 7)
PayloadAt(at) == [i \in 1..CountAt(at) |-> getUint8(file, at + 7 + 2 * i)]
CheckSumAt(at) == getUint8(file, at + 9 + 2 * CountAt(at))

RECURSIVE Payloads(_)
Payloads(es) == IF es = <<>> THEN <<>> ELSE PayloadAt(Head(es).at) \o Payloads(Tail(es))

(* C11: a chunk of n bytes is written as ceil(n/32) data records, all of  *)
(* 32 bytes but the last, which holds the rest; their payloads in order    *)
(* are the bytes of the chunk.                                             *)
C11_RowSplitting ==
    \A k \in DOMAIN src :
        Written(k) =>
            LET n == Len(src[k])
                rows == (n + 31) \div 32
                es == DataOf(k)
            IN  /\ Len(es) = rows
                /\ \A j \in 1..(rows - 1) : TypeAt(es[j].at) = 0 /\ CountAt(es[j].at) = 32
                /\ rows > 0 => CountAt(es[rows].at) = n - 32 * (rows - 1)
                /\ Payloads(es) = src[k]

C11_Witness ==
    /\ WriteDone
    /\ 1028 \in DOMAIN src
    /\ Len(src[1028]) = 40
    /\ Len(DataOf(1028)) = 2
    /\ CountAt(DataOf(1028)[1].at) = 32
    /\ CountAt(DataOf(1028)[2].at) = 8

(* positions of the file at which a record starts *)
RecordStarts == {i \in 1..Len(file) : file[i] = Colon}

(* C12: what write produces for any chunk map, the empty one included,    *)
(* holds exactly one end-of-file record (length 0, address 0, type 1,      *)
(* checksum 0xFF), and it is the last record of the file.                  *)
C12_OneEndOfFile ==
    /\ WriteDone =>
         LET eofs == {i \in RecordStarts : TypeAt(i) = 1}
         IN  /\ Cardinality(eofs) = 1
             /\ \A i \in eofs :
                  /\ \A j \in RecordStarts : j <= i
                  /\ CountAt(i) = 0
                  /\ AddressAt(i) = 0
                  /\ getUint8(file, i + 9) = 255
                  /\ Len(file) = i + 10
    /\ (pc \in {"write", "chunk", "row"}) => \A i \in RecordStarts : TypeAt(i) # 1

C12_Witness ==
    /\ WriteDone
    /\ Cardinality(DOMAIN src) = 2
    /\ Cardinality(RecordStarts) >= 6
    /\ TypeAt(Len(file) - 10) = 1

C12_WitnessEmpty ==
    /\ WriteDone
    /\ src = EmptyMap
    /\ RecordStarts = {1}

(* the offset in its chunk of the row that entry e of emitted carries *)
RowOffset(e) ==
    LET before == SelectSeq(SubSeq(emitted, 1, e - 1),
                            LAMBDA d : d.fn = "data" /\ d.chunk = emitted[e].chunk)
    IN  SumSeq([j \in 1..Len(before) |-> before[j].n])

(* C13: the address write hands to writeData for the row at offset k of a *)
(* chunk is (chunk address + k) & 0xFFFF.                                  *)
C13_RowAddress ==
    \A e \in 1..Len(emitted) :
        emitted[e].fn = "data"
        => emitted[e].arg = (emitted[e].chunk + RowOffset(e)) % 65536

(* C14: a 16-bit value the encoder writes as an address field, in         *)
(* writeData and in writeExtendedLinearAddressRecord, is read back as the  *)
(* same value by getUint16.                                                *)
C14_FieldByteOrder ==
    \A e \in 1..Len(emitted) :
        /\ emitted[e].fn = "data" => getUint16(file, emitted[e].at + 3) = emitted[e].arg
        /\ emitted[e].fn = "ext" => getUint16(file, emitted[e].at + 9) = emitted[e].arg

(* C15: the checksum byte of every data record writeData emits is         *)
(* (256 - S) mod 256, S being the sum mod 256 of the count, the two        *)
(* address bytes, the type 0 and the data bytes; the bytes of the record,  *)
(* checksum included, sum to 0 mod 256.                                    *)
C15_EncoderCheckSum ==
    \A e \in 1..Len(emitted) :
        emitted[e].fn = "data" =>
            LET r == emitted[e]
                row == SubSeq(src[r.chunk], RowOffset(e) + 1, RowOffset(e) + r.n)
                S == (r.n + (r.arg % 256) + (r.arg \div 256) + 0 + SumSeq(row)) % 256
            IN  /\ CheckSumAt(r.at) = (256 - S) % 256
                /\ (CountAt(r.at) + getUint8(file, r.at + 3) + getUint8(file, r.at + 5)
                    + TypeAt(r.at) + SumSeq(PayloadAt(r.at)) + CheckSumAt(r.at)) % 256 = 0

C15_Witness ==
    /\ WriteDone
    /\ \E e \in 1..Len(emitted) :
         /\ emitted[e].fn = "data"
         /\ emitted[e].n = 32
         /\ emitted[e].arg = 65520
         /\ CheckSumAt(emitted[e].at) # 0
         /\ PayloadAt(emitted[e].at) = SubSeq(src[65520], 1, 32)

(* the 64K page in which the row of entry e of emitted starts *)
PageOfRow(e) == (emitted[e].chunk + RowOffset(e)) \div 65536

(* C16: when a data record is emitted, the latest address extension       *)
(* record emitted carries the page of that row's start address; an         *)
(* extension record stands between two rows of one chunk only where the    *)
(* page changes.                                                           *)
C16_PageTracking ==
    \A e \in 1..Len(emitted) :
        emitted[e].fn = "data" =>
            LET exts == {d \in 1..(e - 1) : emitted[d].fn = "ext"}
            IN  /\ exts # {}
                /\ emitted[CHOOSE d \in exts : \A x \in exts : x <= d].arg = PageOfRow(e)
                /\ (/\ e > 2
                    /\ emitted[e - 1].fn = "ext"
                    /\ emitted[e - 2].fn = "data"
                    /\ emitted[e - 2].chunk = emitted[e].chunk)
                   => PageOfRow(e - 2) # PageOfRow(e)

C16_Witness ==
    /\ WriteDone
    /\ 65520 \in DOMAIN src
    /\ \E e \in 3..(Len(emitted) - 1) :
         /\ emitted[e].fn = "data" /\ emitted[e].chunk = 65520 /\ PageOfRow(e) = 1
         /\ emitted[e - 1].fn = "ext" /\ emitted[e - 1].arg = 1
         /\ emitted[e - 2].fn = "data" /\ emitted[e - 2].chunk = 65520 /\ PageOfRow(e - 2) = 0
         /\ emitted[e + 1].fn = "data" /\ emitted[e + 1].chunk = 65520 /\ PageOfRow(e + 1) = 1

----------------------------------------------------------------------------
(* Further properties of HexFile::read *)

(* C17: a record of type 2 or 4 whose length is not 2 ends read with      *)
(* InvalidRecord carrying the line count, before any byte of its payload   *)
(* is taken from the stream and with the base address as it was.           *)
C17_ExtensionLength ==
    [][(/\ pc = "read" /\ good
        /\ AllWellFormed(lineCounter)
        /\ lineCounter < Len(recs)
        /\ recs[lineCounter + 1].mark = Colon
        /\ recs[lineCounter + 1].type \in {2, 4}
        /\ recs[lineCounter + 1].len # 2)
       => /\ result' = InvalidRecord(lineCounter)
          /\ pc' = "done"
          /\ ifs' = Drop(TextFrom(lineCounter + 1), 9)
          /\ baseAddress' = baseAddress
          /\ data' = data]_vars

C17_Witness ==
    /\ result = InvalidRecord(1)
    /\ Len(recs) >= 2
    /\ AllWellFormed(1)
    /\ recs[1].type = 2
    /\ baseAddress = 65536
    /\ recs[2].type = 4
    /\ recs[2].len = 3
    /\ ifs = Drop(TextFrom(2), 9)

(* C18: a data record that fills exactly the gap between two chunks       *)
(* [A,A+n) and [A+n+m,...) is fused with one of them only: the number of   *)
(* chunks stays the same, one chunk grows by the record, the others stay.  *)
C18_SingleFusion ==
    [][(/\ pc = "read" /\ good
        /\ lineCounter < Len(recs)
        /\ AllWellFormed(lineCounter + 1)
        /\ recs[lineCounter + 1].type = 0
        /\ recs[lineCounter + 1].len > 0
        /\ LET a == BaseBefore(lineCounter + 1) + recs[lineCounter + 1].addr
           IN  \E k1, k2 \in DOMAIN data :
                 /\ k1 + Len(data[k1]) = a
                 /\ a + recs[lineCounter + 1].len = k2)
       => /\ DOMAIN data' = DOMAIN data
          /\ \E k \in DOMAIN data :
               /\ Len(data'[k]) = Len(data[k]) + recs[lineCounter + 1].len
               /\ \A j \in (DOMAIN data) \ {k} : data'[j] = data[j]]_vars

C18_Witness ==
    /\ lineCounter = 3
    /\ AllWellFormed(3)
    /\ recs[1].addr = 256 /\ recs[2].addr = 259 /\ recs[3].addr = 258
    /\ DOMAIN data = {256, 259}
    /\ data[256] = <<17, 34, 51>>
    /\ data[259] = <<68, 85>>

(* the data records among the first j records of the file *)
DataRecords(j) == {i \in 1..j : recs[i].type = 0}

(* the absolute address of the first byte of data record i *)
StartOf(i) == BaseBefore(i) + recs[i].addr

(* the bytes the first j records of the file describe *)
ExpectedImage(j) ==
    UNION {{<<StartOf(i) + b - 1, recs[i].payload[b]>> : b \in 1..recs[i].len} : i \in DataRecords(j)}

(* C19: after read succeeds on well-formed data and extension records     *)
(* whose data records cover pairwise disjoint ranges, in any order, the    *)
(* map holds every byte of every record at its effective address and no    *)
(* byte elsewhere.                                                         *)
C19_DecodedImage ==
    (/\ result = Ok
     /\ AllWellFormed(lineCounter)
     /\ \A i, j \in DataRecords(lineCounter) :
          i # j => \/ StartOf(i) + recs[i].len <= StartOf(j)
                   \/ StartOf(j) + recs[j].len <= StartOf(i))
    => Image(data) = ExpectedImage(lineCounter)

----------------------------------------------------------------------------
(* Reading what write produced *)

(* C20: read of what write produced for any chunk map ends successfully   *)
(* at the end-of-file record and never with an error: every record         *)
(* emitted starts with a colon, has a type in {0,1,2,4}, length 2 when it  *)
(* is an extension record, and a checksum the decoder accepts.             *)
C20_OutputDecodable ==
    /\ (pc \in {"read", "done"} /\ opened)
       => /\ result.kind \in {"none", "ok"}
          /\ pc = "read" => good
          /\ pc = "done" => /\ result = Ok
                            /\ lineCounter = Len(emitted) - 1
                            /\ ifs = <<CharF, CharF>>
    /\ \A e \in 1..Len(emitted) :
         LET at == emitted[e].at
         IN  /\ Get(file, at) = Colon
             /\ TypeAt(at) \in {0, 1, 2, 4}
             /\ TypeAt(at) \in {2, 4} => CountAt(at) = 2
             /\ ReadIteration(Drop(file, at - 1), EmptyMap, 0, 0, 0 - 1, 0).result.kind
                  \in {"none", "ok"}

C20_Witness ==
    /\ pc = "done"
    /\ opened
    /\ result = Ok
    /\ DOMAIN src = {1028, 65520}
    /\ lineCounter = 8
    /\ DOMAIN data # {}

====
